---- MODULE Spec2Model ----
(***************************************************************************)
(* Model of sphinxcontrib/ditaa.py: the ditaa directive (Ditaa.run), the   *)
(* renderer (render_ditaa) and the two embedders (render_ditaa_html,       *)
(* render_ditaa_latex), run against one builder and one output directory.  *)
(*                                                                         *)
(* Text is a sequence of one-character (or one-token) strings; captured    *)
(* subprocess output is a sequence of byte values.  The file system, the   *)
(* subprocess and the operating system are the environment: every outcome  *)
(* they can produce is drawn with \E from EnvChoices.                      *)
(***************************************************************************)
EXTENDS Integers, Sequences, FiniteSets, TLC

\* Number of operations (directive runs, renders, visits) in one build run.
MaxCalls == 3

VARIABLES
    python,     \* major version of the interpreter running the extension
    format,     \* the builder's output format: "html" or "latex"
    files,      \* output files present under <outdir>/_images
    warned,     \* hasattr(self.builder, '_ditaa_warned')
    nwarnings,  \* number of self.builder.warn calls so far
    tmpfiles,   \* temporary .ditaa files present, by creation number
    ntmp,       \* temporary files created so far
    spawned,    \* per output path, how often a subprocess was started for it
    body,       \* self.body of the translator
    doctree,    \* the ditaa nodes the directive has put into the document
    nreports,   \* number of reporter.warning calls so far
    deps,       \* file names registered with env.note_dependency
    nopen,      \* codecs.open calls so far
    calls,      \* operations performed so far
    last        \* the latest operation: its inputs, its path and its outcome

vars == <<python, format, files, warned, nwarnings, tmpfiles, ntmp, spawned,
          body, doctree, nreports, deps, nopen, calls, last>>

None == <<>>

----------------------------------------------------------------------------
\* Text helpers.

RECURSIVE Join(_, _)
\* sep.join(parts) for a sequence of texts.
Join(sep, parts) ==
    IF Len(parts) = 0 THEN <<>>
    ELSE IF Len(parts) = 1 THEN parts[1]
    ELSE parts[1] \o sep \o Join(sep, Tail(parts))

IsSpace(ch) == ch \in {" ", "\n", "\t"}

RECURSIVE LStrip(_)
LStrip(t) == IF Len(t) > 0 /\ IsSpace(t[1]) THEN LStrip(Tail(t)) ELSE t

RECURSIVE RStrip(_)
RStrip(t) ==
    IF Len(t) > 0 /\ IsSpace(t[Len(t)]) THEN RStrip(SubSeq(t, 1, Len(t) - 1)) ELSE t

\* str.strip()
Strip(t) == RStrip(LStrip(t))

\* sub occurs in t as a contiguous run.
Contains(t, sub) ==
    \E i \in 1..(Len(t) - Len(sub) + 1) : SubSeq(t, i, i + Len(sub) - 1) = sub

\* repr() of a Python string, str() of a Python list of strings.
Repr(s) == <<"'", s, "'">>
StrList(l) == <<"[">> \o Join(<<", ">>, [i \in 1..Len(l) |-> Repr(l[i])]) \o <<"]">>

----------------------------------------------------------------------------
\* Configuration and the inputs the model draws from.

\* app.add_config_value('ditaa', 'ditaa', 'html')
ditaa_config == "ditaa"
\* app.add_config_value('ditaa_args', [], 'html')
ditaa_args_config == <<>>

imgpath == <<"_images">>
outdir == <<"/out">>

CodeSeq == << <<"a">>, <<"<", "\n", "b">> >>
OptSeq == << <<>>, <<"-E">> >>
Codes == {CodeSeq[i] : i \in 1..Len(CodeSeq)}
Opts == {OptSeq[i] : i \in 1..Len(OptSeq)}
Prefixes == {"ditaa", "fig"}

\* hashkey of render_ditaa: the concatenation of the four encoded inputs.
HashKey(code, options) ==
    code \o StrList(options) \o <<ditaa_config>> \o StrList(ditaa_args_config)

\* sha(hashkey).hexdigest(): an injective assignment of digests to the hash
\* keys the model can form (SHA-1 without collisions).
HexDigests == <<"3c01", "9a7e", "b52f", "0d44">>
KeySeq ==
    [k \in 1..(Len(CodeSeq) * Len(OptSeq)) |->
        HashKey(CodeSeq[((k - 1) \div Len(OptSeq)) + 1],
                OptSeq[((k - 1) % Len(OptSeq)) + 1])]
Sha(hashkey) ==
    HexDigests[CHOOSE k \in 1..Len(KeySeq) : KeySeq[k] = hashkey]

\* '%s-%s.png' % (prefix, digest)
OutFName(code, options, prefix) ==
    <<prefix, "-", Sha(HashKey(code, options)), ".png">>
\* os.path.join(self.builder.imgpath, outfname)
OutRelFn(code, options, prefix) ==
    imgpath \o <<"/">> \o OutFName(code, options, prefix)
\* os.path.join(self.builder.outdir, '_images', outfname)
OutFullFn(code, options, prefix) ==
    outdir \o <<"/", "_images", "/">> \o OutFName(code, options, prefix)

AllOutPaths ==
    {OutFullFn(c, o, p) : c \in Codes, o \in Opts, p \in Prefixes}

\* The (code, options, prefix) triples of the direct calls of render_ditaa:
\* one as the visitors call it, and one with an option and its own prefix.
DirectCalls ==
    {<<CodeSeq[1], <<>>, "ditaa">>, <<CodeSeq[2], <<"-E">>, "fig">>}

----------------------------------------------------------------------------
\* Decoding of captured output.

\* Byte strings a subprocess may leave on a stream: nothing, ASCII text, and
\* a byte that is no valid UTF-8.
Streams == {<<>>, <<101>>, <<111>>, <<255>>}

\* The (stderr, stdout) pairs of a failing tool.
FailureOutputs == {<< <<101>>, <<111>> >>, << <<255>>, <<>> >>}

Chr(b) == CASE b = 101 -> "e" [] b = 111 -> "o" [] OTHER -> "?"

\* bytes.decode(sys_encoding) with the default strict error handler: a byte
\* outside ASCII that starts no valid sequence raises UnicodeDecodeError.
Decodable(bytes) == \A i \in 1..Len(bytes) : bytes[i] < 128
Decode(bytes) == [i \in 1..Len(bytes) |-> Chr(bytes[i])]

----------------------------------------------------------------------------
\* What the environment does during one render_ditaa call.

\* Exceptions p.communicate can raise, as (class, errno).
CommErrors ==
    {<<"OSError", "EPIPE">>, <<"IOError", "EINVAL">>, <<"OSError", "EIO">>}

DefaultEnv ==
    [tmp |-> "ok", popen |-> "ok", comm |-> <<"ok", "ok">>, returncode |-> 0,
     wrote |-> TRUE, stdout |-> <<>>, stderr |-> <<>>]

\* tmp: writing and closing the temporary file works, or raises.
\* popen: Popen starts the tool, or raises OSError with this errno.
\* comm: p.communicate returns, or raises one of CommErrors.
\* returncode, stdout, stderr: what the tool exits with and leaves on its
\*   streams; wrote: whether it wrote the output file.
\* Fields no call can observe (nothing is launched, or the streams of a tool
\* that exits with 0) are held at their defaults; a tool that exits with a
\* nonzero code, or that an I/O error cut off, has written no output file.
EnvChoices ==
    {e \in [tmp : {"ok", "fails"},
            popen : {"ok", "ENOENT", "EACCES"},
            comm : {<<"ok", "ok">>} \cup CommErrors,
            returncode : {0, 1},
            wrote : BOOLEAN,
            stdout : Streams,
            stderr : Streams] :
        /\ e.tmp = "fails" => e.popen = "ok"
        /\ (e.tmp = "fails" \/ e.popen # "ok") =>
              /\ e.comm = <<"ok", "ok">>
              /\ e.returncode = 0
              /\ e.wrote
        /\ e.returncode = 0 => (e.stdout = <<>> /\ e.stderr = <<>>)
        /\ e.returncode # 0 =>
              (<<e.stderr, e.stdout>> \in FailureOutputs /\ ~e.wrote)
        /\ e.comm[2] = "EIO" => ~e.wrote}

----------------------------------------------------------------------------
\* render_ditaa

\* os.path.isfile(outfullfn)
IsFile(fs, outfullfn) == outfullfn \in fs

\* The early returns with the flag tested before the file.
EarlyReturnFlagFirst(fs, w, outfullfn) ==
    IF w THEN "skip"
    ELSE IF IsFile(fs, outfullfn) THEN "hit"
    ELSE "render"

\* The early returns without the test of the flag.
EarlyReturnNoSkip(fs, w, outfullfn) ==
    IF IsFile(fs, outfullfn) THEN "hit" ELSE "render"

\* The two early returns, in the order the code makes them: "hit" when the
\* output file exists, else "skip" when the builder has _ditaa_warned.
EarlyReturn(fs, w, outfullfn) ==
    IF IsFile(fs, outfullfn) THEN "hit"
    ELSE IF w THEN "skip"
    ELSE "render"

\* A handler around Popen that swallows every OSError.
LaunchRecoverableAny(errno) == TRUE

\* except OSError around Popen: only ENOENT is handled, anything else is
\* re-raised.
LaunchRecoverable(errno) == errno = "ENOENT"

\* isinstance(exception of class cls, handler): IOError is an alias of OSError
\* from Python 3.3 on and a separate class before.
IsInstance(py, cls, handler) == IF py = 3 THEN TRUE ELSE cls = handler

\* The class name an exception of class cls carries under this interpreter.
ClassName(py, cls) == IF py = 3 THEN "OSError" ELSE cls

\* The except clauses around p.communicate, tried in order: the first clause
\* whose class matches decides, and re-raises unless the errno is its own.
CommRecoverable(py, exc) ==
    IF IsInstance(py, exc[1], "OSError") THEN exc[2] = "EPIPE"
    ELSE IF IsInstance(py, exc[1], "IOError") THEN exc[2] = "EINVAL"
    ELSE FALSE

\* The command line handed to Popen; the temporary file's random name is one
\* token.
DitaaCmd(options, outfullfn) ==
    << <<ditaa_config>> >> \o [i \in 1..Len(ditaa_args_config) |-> <<ditaa_args_config[i]>>]
        \o [i \in 1..Len(options) |-> <<options[i]>>]
        \o << <<"<tmp>.ditaa">>, outfullfn >>

\* The builder warning of a tool that cannot be found.
CannotRunMessage(options, outfullfn) ==
    <<"ditaa command ">> \o Join(<<" ">>, DitaaCmd(options, outfullfn))
        \o <<" cannot be run: check the ditaa and ditaa_args settings">>

\* The message of the DitaaError of a nonzero exit.
ExitMessage(stderr, stdout) ==
    <<"ditaa exited with error:", "\n", "[stderr]", "\n">> \o Decode(stderr)
        \o <<"\n", "[stdout]", "\n">> \o Decode(stdout)

\* p.returncode != 0
Failed(returncode) == returncode # 0

\* Whether the finally clause that unlinks the temporary file covers the point
\* where the call leaves: it opens after ditaa_code.write and .close.
InTryFinally(point) == point # "tmpfile"

\* The result of a call that has not happened.
NoRender ==
    [path |-> "none", kind |-> "return", ret |-> <<None, None>>, exc |-> "",
     errno |-> "", msg |-> <<>>, warned |-> FALSE, newWarnings |-> <<>>,
     fileWritten |-> FALSE, tmpCreated |-> FALSE, tmpLeft |-> FALSE,
     popenCalled |-> FALSE, started |-> FALSE, wentWrong |-> FALSE,
     returncode |-> 0, stdout |-> <<>>, stderr |-> <<>>]

\* One call of render_ditaa(self, code, options, prefix) with output files fs
\* and flag w under interpreter py, the environment behaving as e.  path
\* names the exit taken; warned is the flag afterwards; fileWritten says that
\* the tool wrote the output file; tmpLeft that the temporary file survives.
render_ditaa(py, fs, w, code, options, prefix, e) ==
    LET outrelfn == OutRelFn(code, options, prefix)
        outfullfn == OutFullFn(code, options, prefix)
        early == EarlyReturn(fs, w, outfullfn)
        base == [NoRender EXCEPT !.warned = w]
        \* from NamedTemporaryFile on
        tmp == [base EXCEPT !.tmpCreated = TRUE]
        \* from Popen on
        called == [tmp EXCEPT !.popenCalled = TRUE]
        \* the tool runs: it may write its output whatever happens next
        run == [called EXCEPT !.started = TRUE, !.fileWritten = e.wrote]
        recovered == e.comm[1] # "ok" /\ CommRecoverable(py, e.comm)
        \* after communicate, or after the direct reads of the recovery
        done == [run EXCEPT !.wentWrong = recovered,
                            !.returncode = e.returncode,
                            !.stdout = e.stdout, !.stderr = e.stderr]
    IN  IF early = "hit" THEN
            [base EXCEPT !.path = "hit", !.ret = <<outrelfn, outfullfn>>]
        ELSE IF early = "skip" THEN
            [base EXCEPT !.path = "skip"]
        ELSE IF e.tmp = "fails" THEN
            [tmp EXCEPT !.path = "tmpfile", !.kind = "raise", !.ret = <<>>,
                        !.exc = ClassName(py, "IOError"), !.errno = "ENOSPC",
                        !.tmpLeft = ~InTryFinally("tmpfile")]
        ELSE IF e.popen # "ok" THEN
            IF LaunchRecoverable(e.popen) THEN
                [called EXCEPT !.path = "notfound", !.warned = TRUE,
                               !.newWarnings =
                                   <<CannotRunMessage(options, outfullfn)>>,
                               !.errno = e.popen,
                               !.tmpLeft = ~InTryFinally("popen")]
            ELSE
                [called EXCEPT !.path = "launchfatal", !.kind = "raise",
                               !.ret = <<>>, !.exc = "OSError",
                               !.errno = e.popen,
                               !.tmpLeft = ~InTryFinally("popen")]
        ELSE IF e.comm[1] # "ok" /\ ~recovered THEN
            [run EXCEPT !.path = "commfatal", !.kind = "raise", !.ret = <<>>,
                        !.exc = ClassName(py, e.comm[1]), !.errno = e.comm[2],
                        !.tmpLeft = ~InTryFinally("communicate")]
        ELSE IF Failed(e.returncode) THEN
            IF Decodable(e.stderr) /\ Decodable(e.stdout) THEN
                [done EXCEPT !.path = "nonzero", !.kind = "raise", !.ret = <<>>,
                             !.exc = "DitaaError", !.warned = TRUE,
                             !.errno = IF recovered THEN e.comm[2] ELSE "",
                             !.msg = ExitMessage(e.stderr, e.stdout),
                             !.tmpLeft = ~InTryFinally("returncode")]
            ELSE
                [done EXCEPT !.path = "undecodable", !.kind = "raise",
                             !.ret = <<>>, !.exc = "UnicodeDecodeError",
                             !.errno = IF recovered THEN e.comm[2] ELSE "",
                             !.warned = TRUE,
                             !.tmpLeft = ~InTryFinally("returncode")]
        ELSE
            [done EXCEPT !.path = "success", !.ret = <<outrelfn, outfullfn>>,
                         !.errno = IF recovered THEN e.comm[2] ELSE "",
                         !.tmpLeft = ~InTryFinally("return")]

----------------------------------------------------------------------------
\* The embedders.

\* self.encode(text) of the HTML translator: the HTML special characters
\* become entities.
EncodeChar(ch) ==
    CASE ch = "&" -> <<"&amp;">>
      [] ch = "<" -> <<"&lt;">>
      [] ch = ">" -> <<"&gt;">>
      [] ch = "\"" -> <<"&quot;">>
      [] OTHER -> <<ch>>
RECURSIVE Encode(_)
Encode(text) ==
    IF Len(text) = 0 THEN <<>> ELSE EncodeChar(text[1]) \o Encode(Tail(text))

\* A wrapper that ignores the inline flag.
WrapperBlockOnly(inline) == "p"

\* wrapper: 'span' for an inline node, 'p' otherwise.
Wrapper(inline) == IF inline THEN "span" ELSE "p"

\* self.starttag(node, wrapper, CLASS='ditaa')
StartTag(wrapper) == <<"<", wrapper, " class=\"ditaa\"", ">">>
\* '<img src="%s"/>\n' % fname
ImgTag(fname) == <<"<img src=\"">> \o fname \o <<"\"/>", "\n">>
\* '</%s>\n' % wrapper
EndTag(wrapper) == <<"</", wrapper, ">", "\n">>
\* '\\par\\includegraphics{%s}\\par' % outfn
IncludeGraphics(outfn) == <<"\\par\\includegraphics{">> \o outfn \o <<"}\\par">>
\* What walking nodes.system_message(info, type='WARNING', level=2) leaves in
\* the body.
SystemMessage(info) == <<"system_message", "WARNING", "2">> \o info

\* An embedder that lets the DitaaError through.
OnDitaaErrorReraise(r) ==
    [r |-> r, appended |-> <<>>, warn |-> <<>>, outcome |-> r.exc]

\* The handler of "except DitaaError" in both embedders: the message goes into
\* the document as a system message and to the builder, then SkipNode.
OnDitaaError(r) ==
    [r |-> r, appended |-> <<SystemMessage(r.msg)>>, warn |-> <<r.msg>>,
     outcome |-> "SkipNode"]

\* An exception of render_ditaa that no except clause of the embedder matches.
Propagate(r) ==
    [r |-> r, appended |-> <<>>, warn |-> <<>>, outcome |-> r.exc]

\* What render_ditaa_html appends for a call that returned (fname, outfn).
HtmlFragments(inline, code, fname) ==
    <<StartTag(Wrapper(inline)),
      IF fname = None THEN Encode(code) ELSE ImgTag(fname),
      EndTag(Wrapper(inline))>>

render_ditaa_html(py, fs, w, node, code, options, prefix, e) ==
    LET r == render_ditaa(py, fs, w, code, options, prefix, e)
    IN  IF r.kind = "raise" THEN
            IF r.exc = "DitaaError" THEN OnDitaaError(r) ELSE Propagate(r)
        ELSE [r |-> r, appended |-> HtmlFragments(node.inline, code, r.ret[1]),
              warn |-> <<>>, outcome |-> "SkipNode"]

\* What render_ditaa_latex appends for a call that returned (fname, outfn).
LatexFragments(fname, outfn) ==
    IF fname # None THEN <<IncludeGraphics(outfn)>> ELSE <<>>

render_ditaa_latex(py, fs, w, node, code, options, prefix, e) ==
    LET r == render_ditaa(py, fs, w, code, options, prefix, e)
    IN  IF r.kind = "raise" THEN
            IF r.exc = "DitaaError" THEN OnDitaaError(r) ELSE Propagate(r)
        ELSE [r |-> r, appended |-> LatexFragments(r.ret[1], r.ret[2]),
              warn |-> <<>>, outcome |-> "SkipNode"]

----------------------------------------------------------------------------
\* The directive.

\* The directive's inputs: an optional file name argument, content lines, the
\* options given, and what reading the named file yields.
Arguments == {<<>>, << <<"d.ditaa">> >>}
Contents == {<<>>, << <<" ">>, <<>> >>, << <<"<">>, <<"b">> >>}
NoOptions == [alt |-> None, caption |-> None, inline |-> FALSE]
DirectiveOptions ==
    {NoOptions, [alt |-> <<"x">>, caption |-> <<"y">>, inline |-> TRUE]}
FileReads == {[ok |-> FALSE, text |-> <<>>], [ok |-> TRUE, text |-> <<"a">>]}

\* node = ditaa() with its attributes.
DitaaNode(dotcode, options) ==
    [tag |-> "ditaa", code |-> dotcode, options |-> <<>>, alt |-> options.alt,
     caption |-> options.caption, inline |-> options.inline]
\* reporter.warning(message): a system_message node.
WarningNode(message) ==
    [tag |-> "system_message", code |-> message, options |-> <<>>, alt |-> None,
     caption |-> None, inline |-> FALSE]

\* A directive that never tests for content beside the file name.
BothGivenUnchecked(arguments, content) == FALSE

\* "if self.content" of the branch that has a file name argument.
BothGiven(arguments, content) == Len(arguments) > 0 /\ Len(content) > 0

\* env.relfn2path(self.arguments[0])
RelFn2Path(name) == [rel |-> name, full |-> <<"/src/">> \o name]

NoRun == [ret |-> <<>>, resolved |-> {}, noted |-> {}, opened |-> FALSE]

\* Ditaa.run: ret is the list returned, resolved the names given to
\* env.relfn2path, noted those given to env.note_dependency, opened whether
\* codecs.open was called.
DitaaRun(arguments, content, options, read) ==
    IF Len(arguments) > 0 THEN
        IF BothGiven(arguments, content) THEN
            [NoRun EXCEPT !.ret = <<WarningNode(
                <<"Ditaa directive cannot have both content and a filename argument">>)>>]
        ELSE
            LET fn == RelFn2Path(arguments[1])
                found == [NoRun EXCEPT !.resolved = {arguments[1]},
                                       !.noted = {fn.rel}, !.opened = TRUE]
            IN  IF ~read.ok THEN
                    [found EXCEPT !.ret = <<WarningNode(
                        <<"External Ditaa file ">> \o fn.full
                            \o <<" not found or reading it failed">>)>>]
                ELSE [found EXCEPT !.ret = <<DitaaNode(read.text, options)>>]
    ELSE
        LET dotcode == Join(<<"\n">>, content)
        IN  IF Strip(dotcode) = <<>> THEN
                [NoRun EXCEPT !.ret = <<WarningNode(
                    <<"Ignoring \"ditaa\" directive without content.">>)>>]
            ELSE [NoRun EXCEPT !.ret = <<DitaaNode(dotcode, options)>>]

----------------------------------------------------------------------------
\* The build run.

NoCall ==
    [op |-> "none", code |-> <<>>, options |-> <<>>, prefix |-> "",
     inline |-> FALSE, existed |-> FALSE, flagBefore |-> FALSE,
     env |-> DefaultEnv, r |-> NoRender, outcome |-> "", appended |-> <<>>,
     warn |-> <<>>,
     arguments |-> <<>>, content |-> <<>>, run |-> NoRun]

\* Output files left by an earlier run.
EarlierOutputs == {{}, {OutFullFn(CodeSeq[1], <<>>, "ditaa")}}

Init ==
    /\ python \in {2, 3}
    /\ format \in {"html", "latex"}
    /\ files \in EarlierOutputs
    /\ warned = FALSE
    /\ nwarnings = 0
    /\ tmpfiles = {}
    /\ ntmp = 0
    /\ spawned = [p \in AllOutPaths |-> 0]
    /\ body = <<>>
    /\ doctree = {}
    /\ nreports = 0
    /\ deps = {}
    /\ nopen = 0
    /\ calls = 0
    /\ last = NoCall

\* An exception that leaves an operation uncaught ends the build run; a
\* DitaaError out of a direct call is the caller's to handle, as the embedders
\* do.
Running == last.outcome \notin {"OSError", "IOError", "UnicodeDecodeError"}

\* The environments a call can meet: none is consulted on an early return.
EnvFor(code, options, prefix) ==
    IF OutFullFn(code, options, prefix) \in files \/ warned
    THEN {DefaultEnv} ELSE EnvChoices

\* The effect of one render_ditaa call with result r on the builder, the
\* output directory and the temporary directory; nw further builder warnings
\* come from the caller.
Rendered(r, outfullfn, nw) ==
    /\ files' = IF r.fileWritten THEN files \cup {outfullfn} ELSE files
    /\ warned' = r.warned
    /\ nwarnings' = nwarnings + Len(r.newWarnings) + nw
    /\ ntmp' = IF r.tmpCreated THEN ntmp + 1 ELSE ntmp
    /\ tmpfiles' = IF r.tmpLeft THEN tmpfiles \cup {ntmp + 1} ELSE tmpfiles
    /\ spawned' = [spawned EXCEPT ![outfullfn] = IF r.started THEN @ + 1 ELSE @]

\* A direct call render_ditaa(self, code, options, prefix).
RenderDitaa ==
    /\ calls < MaxCalls
    /\ Running
    /\ \E c \in DirectCalls :
         \E e \in EnvFor(c[1], c[2], c[3]) :
            LET outfullfn == OutFullFn(c[1], c[2], c[3])
                r == render_ditaa(python, files, warned, c[1], c[2], c[3], e)
            IN  /\ Rendered(r, outfullfn, 0)
                /\ last' = [NoCall EXCEPT !.op = "render", !.code = c[1],
                                !.options = c[2], !.prefix = c[3],
                                !.existed = (outfullfn \in files),
                                !.flagBefore = warned, !.env = e, !.r = r,
                                !.outcome = IF r.kind = "raise" THEN r.exc
                                            ELSE "return"]
    /\ calls' = calls + 1
    /\ UNCHANGED <<python, format, body, doctree, nreports, deps, nopen>>

\* The visit of a ditaa node by a translator whose embedder yields v when the
\* environment behaves as e.
Visited(op, node, e, v) ==
    LET outfullfn == OutFullFn(node.code, node.options, "ditaa")
    IN  /\ Rendered(v.r, outfullfn, Len(v.warn))
        /\ body' = body \o v.appended
        /\ last' = [NoCall EXCEPT !.op = op, !.code = node.code,
                        !.options = node.options, !.prefix = "ditaa",
                        !.inline = node.inline,
                        !.existed = (outfullfn \in files),
                        !.flagBefore = warned, !.env = e, !.r = v.r,
                        !.outcome = v.outcome, !.appended = v.appended,
                        !.warn = v.warn]

\* html_visit_ditaa(self, node)
html_visit_ditaa ==
    /\ calls < MaxCalls
    /\ Running
    /\ format = "html"
    /\ \E node \in doctree :
         \E e \in EnvFor(node.code, node.options, "ditaa") :
            Visited("html", node, e,
                    render_ditaa_html(python, files, warned, node, node.code,
                                      node.options, "ditaa", e))
    /\ calls' = calls + 1
    /\ UNCHANGED <<python, format, doctree, nreports, deps, nopen>>

\* latex_visit_ditaa(self, node)
latex_visit_ditaa ==
    /\ calls < MaxCalls
    /\ Running
    /\ format = "latex"
    /\ \E node \in doctree :
         \E e \in EnvFor(node.code, node.options, "ditaa") :
            Visited("latex", node, e,
                    render_ditaa_latex(python, files, warned, node, node.code,
                                       node.options, "ditaa", e))
    /\ calls' = calls + 1
    /\ UNCHANGED <<python, format, doctree, nreports, deps, nopen>>

\* One ditaa directive of the source is run; the ditaa node it returns goes
\* into the document.
Directive ==
    /\ calls < MaxCalls
    /\ Running
    /\ \E arguments \in Arguments, content \in Contents,
          options \in DirectiveOptions, read \in FileReads :
         LET run == DitaaRun(arguments, content, options, read)
         IN  /\ doctree' = doctree \cup
                    {run.ret[i] : i \in {j \in 1..Len(run.ret) :
                                            run.ret[j].tag = "ditaa"}}
             /\ nreports' = nreports +
                    Cardinality({j \in 1..Len(run.ret) :
                                    run.ret[j].tag = "system_message"})
             /\ deps' = deps \cup run.noted
             /\ nopen' = IF run.opened THEN nopen + 1 ELSE nopen
             /\ last' = [NoCall EXCEPT !.op = "run", !.arguments = arguments,
                             !.content = content, !.run = run]
    /\ calls' = calls + 1
    /\ UNCHANGED <<python, format, files, warned, nwarnings, tmpfiles, ntmp,
                   spawned, body>>

Next == RenderDitaa \/ html_visit_ditaa \/ latex_visit_ditaa \/ Directive

Spec == Init /\ [][Next]_vars

----------------------------------------------------------------------------
\* The properties.  Every step of Next is one operation and leaves its
\* description in last, so in a step last' is the operation taken, the
\* unprimed variables are the state it started in and the primed ones the
\* state it left.

RenderOps == {"render", "html", "latex"}

\* The output path and the pair of paths of the call described by c.
PathOf(c) == OutFullFn(c.code, c.options, c.prefix)
PairOf(c) == <<OutRelFn(c.code, c.options, c.prefix), PathOf(c)>>

\* C1: a render_ditaa call that finds its output file present returns the
\* (public-relative, absolute) pair of that file, calls no Popen, creates no
\* temporary file and leaves the failure flag as it was, whatever the flag is.
C1_CacheHit ==
    [][(last'.op \in RenderOps /\ PathOf(last') \in files) =>
          /\ last'.r.kind = "return"
          /\ last'.r.ret = PairOf(last')
          /\ ~last'.r.popenCalled
          /\ spawned' = spawned
          /\ ntmp' = ntmp /\ tmpfiles' = tmpfiles
          /\ warned' = warned
          /\ files' = files]_vars

\* A cache hit taken while the failure flag is set.
C1_Witness ==
    /\ last.op \in RenderOps
    /\ last.existed /\ last.flagBefore
    /\ last.r.ret = PairOf(last)

\* C2: once a call has returned a pair of paths the file at the absolute path
\* exists, and no cache key has the tool started for it more than once.
C2_Idempotent ==
    /\ (last.op \in RenderOps /\ last.r.kind = "return"
            /\ last.r.ret # <<None, None>>) => last.r.ret[2] \in files
    /\ \A p \in AllOutPaths : spawned[p] <= 1

\* C3: a Popen that fails with ENOENT sets the failure flag, gives the builder
\* exactly one warning and returns (None, None); a Popen that fails with
\* another errno raises that OSError, warns nobody and leaves the flag unset.
C3_MissingTool ==
    [][(/\ last'.op \in RenderOps
        /\ PathOf(last') \notin files /\ ~warned
        /\ last'.env.tmp = "ok" /\ last'.env.popen # "ok") =>
          IF last'.env.popen = "ENOENT"
          THEN /\ warned'
               /\ nwarnings' = nwarnings + 1
               /\ last'.r.kind = "return"
               /\ last'.r.ret = <<None, None>>
               /\ last'.outcome \in {"return", "SkipNode"}
          ELSE /\ ~warned'
               /\ nwarnings' = nwarnings
               /\ last'.r.kind = "raise"
               /\ last'.outcome = "OSError"
               /\ last'.r.errno = last'.env.popen]_vars

\* A call whose Popen found no executable.
C3_Witness ==
    /\ last.op \in RenderOps
    /\ ~last.existed /\ ~last.flagBefore
    /\ last.env.tmp = "ok" /\ last.env.popen = "ENOENT"
    /\ warned

\* C4: a tool that was started and exits with a nonzero code, communication
\* having completed or having been recovered from a broken pipe, makes
\* render_ditaa set the failure flag and raise a DitaaError whose message
\* holds the text of both captured streams.
C4_NonzeroExit ==
    (/\ last.op \in RenderOps
     /\ last.r.started
     /\ last.env.comm[2] \in {"ok", "EPIPE"}
     /\ last.env.returncode # 0) =>
        /\ warned
        /\ last.r.kind = "raise"
        /\ last.r.exc = "DitaaError"
        /\ Contains(last.r.msg, Decode(last.env.stderr))
        /\ Contains(last.r.msg, Decode(last.env.stdout))

\* C5: the failure flag is never cleared, and a call made while it is set
\* calls no Popen and creates no temporary file: it returns the cached pair
\* when its output file exists and (None, None) otherwise.
C5_StickyFailure ==
    [][/\ warned => warned'
       /\ (warned /\ last'.op \in RenderOps) =>
             /\ ~last'.r.popenCalled
             /\ spawned' = spawned
             /\ ntmp' = ntmp
             /\ last'.r.kind = "return"
             /\ last'.r.ret = IF PathOf(last') \in files THEN PairOf(last')
                              ELSE <<None, None>>]_vars

\* A call short-circuited by the flag: no output file, nothing launched.
C5_Witness ==
    /\ last.op \in RenderOps
    /\ last.flagBefore /\ ~last.existed
    /\ last.r.ret = <<None, None>>
    /\ ~last.r.popenCalled

\* C6: in both formats a visit whose render returned, or raised DitaaError,
\* ends with SkipNode; the DitaaError is not propagated: its message is put
\* into the document as a WARNING system message, the last thing in the body,
\* and is given to the builder's warn.
C6_EmbedderTerminates ==
    (last.op \in {"html", "latex"}
        /\ (last.r.kind = "return" \/ last.r.exc = "DitaaError")) =>
        /\ last.outcome = "SkipNode"
        /\ last.r.exc = "DitaaError" =>
              /\ Len(last.appended) = 1
              /\ SubSeq(last.appended[1], 1, 2) = <<"system_message", "WARNING">>
              /\ Contains(last.appended[1], last.r.msg)
              /\ Len(body) > 0 /\ body[Len(body)] = last.appended[1]
              /\ last.warn = <<last.r.msg>>

\* A LaTeX visit whose render raised DitaaError.
C6_Witness ==
    /\ last.op = "latex"
    /\ last.r.exc = "DitaaError"
    /\ last.outcome = "SkipNode"

\* C7: an HTML visit whose render returned appends exactly three fragments:
\* the opening tag of class ditaa (span for an inline node, p otherwise), then
\* the img of the public-relative path if a path was returned and the escaped
\* diagram text if not, then the matching closing tag.
C7_HtmlShape ==
    (last.op = "html" /\ last.r.kind = "return") =>
        LET w == IF last.inline THEN "span" ELSE "p"
            got == last.appended
        IN  /\ Len(got) = 3
            /\ Len(body) >= 3 /\ SubSeq(body, Len(body) - 2, Len(body)) = got
            /\ got[1] = <<"<", w, " class=\"ditaa\"", ">">>
            /\ got[3] = <<"</", w, ">", "\n">>
            /\ (got[2][1] = "<img src=\"") <=> (last.r.ret[1] # None)
            /\ IF last.r.ret[1] # None
               THEN got[2] = <<"<img src=\"">> \o PairOf(last)[1] \o <<"\"/>", "\n">>
               ELSE /\ got[2] = Encode(last.code)
                    /\ \A i \in 1..Len(got[2]) : got[2][i] \notin {"<", ">", "\""}

\* An inline node embedded as escaped text because the render gave no output.
C7_Witness ==
    /\ last.op = "html"
    /\ last.inline
    /\ last.r.kind = "return" /\ last.r.ret[1] = None
    /\ \E i \in 1..Len(last.code) : last.code[i] = "<"
    /\ Len(last.appended) = 3

\* C8: a directive given a file name argument and content returns exactly one
\* warning and no ditaa node, and has resolved no file name, registered no
\* dependency and opened no file.
C8_BothGiven ==
    [][(last'.op = "run" /\ Len(last'.arguments) > 0 /\ Len(last'.content) > 0) =>
          /\ Len(last'.run.ret) = 1
          /\ last'.run.ret[1].tag = "system_message"
          /\ doctree' = doctree
          /\ nreports' = nreports + 1
          /\ last'.run.resolved = {}
          /\ deps' = deps
          /\ nopen' = nopen]_vars

\* A directive run with both a file name and content.
C8_Witness ==
    /\ last.op = "run"
    /\ Len(last.arguments) > 0 /\ Len(last.content) > 0
    /\ nreports > 0

\* C9: no temporary input file is left behind, on any exit path of any call.
C9_TempFileDeleted == tmpfiles = {}

\* C10: when p.communicate fails with EPIPE or with EINVAL the error is not
\* propagated and the exit code alone decides the outcome (the pair on 0,
\* DitaaError otherwise); with any other errno the error is propagated and
\* the flag stays unset.  Stated for captured output that decodes.
C10_BrokenChannel ==
    (/\ last.op \in RenderOps
     /\ last.r.started
     /\ last.env.comm[1] # "ok"
     /\ Decodable(last.env.stderr) /\ Decodable(last.env.stdout)) =>
        IF last.env.comm[2] \in {"EPIPE", "EINVAL"}
        THEN /\ last.r.wentWrong
             /\ IF last.env.returncode = 0
                THEN last.r.kind = "return" /\ last.r.ret = PairOf(last)
                ELSE last.r.kind = "raise" /\ last.r.exc = "DitaaError"
        ELSE /\ last.r.kind = "raise"
             /\ last.r.errno = last.env.comm[2]
             /\ warned = last.flagBefore

====
